---- MODULE Spec2Model ----
(***************************************************************************)
(* A model of models/SAStereonet.py: the stereo network SAStereonet, its   *)
(* feature extractor `front` (ResNet-34 backbone, multi-scale projection,  *)
(* fifteen MeanFieldUpdate units) and its decoder `back`.                   *)
(*                                                                         *)
(* A tensor is a record [shape, val].  shape is <<batch, channel, height,  *)
(* width>>, computed by the size arithmetic of each torch layer.  val is   *)
(* the expression that produced the tensor: a term [op, mod, attr, args]   *)
(* whose `mod` is the identity of the parameter-bearing module applied     *)
(* (0 for a parameterless function), so two tensors have equal val exactly *)
(* when they are the same function of the same inputs and parameters.      *)
(* Tensors live in `heap` and the local variables of front.forward hold    *)
(* heap indices, so an in-place layer (ReLU(inplace=True)) changes the     *)
(* tensor every alias sees.                                                *)
(*                                                                         *)
(* The arithmetic of one MeanFieldUpdate is modelled separately, on        *)
(* tensors of one channel and one pixel (where a padded 3x3 convolution is *)
(* exactly weight*x + bias), in fixed point: see MeanFieldUpdateValue.     *)
(***************************************************************************)
EXTENDS Integers, Sequences, FiniteSets, TLC

VARIABLES
    cfg,        \* constructor arguments of SAStereonet
    training,   \* nn.Module.training of the whole model
    net,        \* the constructed module tree
    heap,       \* the tensors alive during SAStereonet.forward
    leftimg,    \* heap index of the left image
    rightimg,   \* heap index of the right image
    pc,         \* position in SAStereonet.forward
    fpc,        \* position in front.forward
    loc,        \* local variables of front.forward (heap indices, 0 = unbound)
    k,          \* number of the next MeanFieldUpdate call of front.forward, 1..15
    calls,      \* the MeanFieldUpdate calls made so far, per stream
    feat,       \* feat_right / feat_left (heap indices, 0 = unbound)
    bpc,        \* position in back.forward
    pred,       \* local variable pred of back.forward (a tensor)
    out,        \* value returned by SAStereonet.forward
    err,        \* the layer that raised, "" if none
    mf          \* one MeanFieldUpdate evaluated on numbers

vars == <<cfg, training, net, heap, leftimg, rightimg, pc, fpc, loc, k, calls,
          feat, bpc, pred, out, err, mf>>

---------------------------------------------------------------------------
(* Bounds of the model *)

MaxBatch == 2       \* batch sizes 1..MaxBatch
MaxSide == 3        \* decoder inputs of 1..MaxSide rows and columns (and the default size)
MaxVal == 1         \* tensor values -MaxVal..MaxVal
MaxW == 1           \* layer weights and biases -MaxW..MaxW
SatLogit == 2       \* the sigmoid is exactly 0 below -SatLogit, exactly 1 above SatLogit

(* Program constants *)

Rounds == 5             \* meanFieldUpdate1_* .. meanFieldUpdate5_*
Positions == 3          \* meanFieldUpdate*_1 .. meanFieldUpdate*_3
DefaultInChannels == 3
DefaultFeatNum == 512
DefaultFeatWidth == 80
DefaultFeatHeight == 24

Steps == Rounds * Positions

---------------------------------------------------------------------------
(* Tensors and terms *)

Term(op, mod, attr, args) == [op |-> op, mod |-> mod, attr |-> attr, args |-> args]

Tensor(shape, val) == [shape |-> shape, val |-> val]

NoTensor == Tensor(<<0, 0, 0, 0>>, Term("none", 0, <<>>, <<>>))

Image(name, shape) == Tensor(shape, Term(name, 0, <<>>, <<>>))

\* The outcome of a layer: a tensor, or the name of the layer that raised.
Ok(t) == [ok |-> TRUE, at |-> "", t |-> t]
Fail(at) == [ok |-> FALSE, at |-> at, t |-> NoTensor]
Bind(r, F(_)) == IF r.ok THEN F(r.t) ELSE r

Batch(x) == x.shape[1]
Chan(x) == x.shape[2]
Height(x) == x.shape[3]
Width(x) == x.shape[4]

---------------------------------------------------------------------------
(* torch.nn layers: channel check and output size *)

ConvOut(n, ks, s, p) == ((n + 2 * p - ks) \div s) + 1
ConvTransposeOut(n, ks, s, p) == (n - 1) * s - 2 * p + ks

Conv2d(at, m, x, ks, s, p) ==
    IF Chan(x) # m.in \/ Height(x) + 2 * p < ks \/ Width(x) + 2 * p < ks
    THEN Fail(at)
    ELSE Ok(Tensor(<<Batch(x), m.out, ConvOut(Height(x), ks, s, p),
                     ConvOut(Width(x), ks, s, p)>>,
                   Term("conv", m.id, <<>>, <<x.val>>)))

ConvTranspose2d(at, m, x, ks, s, p) ==
    IF Chan(x) # m.in
    THEN Fail(at)
    ELSE Ok(Tensor(<<Batch(x), m.out, ConvTransposeOut(Height(x), ks, s, p),
                     ConvTransposeOut(Width(x), ks, s, p)>>,
                   Term("convT", m.id, <<>>, <<x.val>>)))

\* In training mode the batch statistics need more than one value per channel.
BatchNorm2d(at, m, x, train) ==
    IF Chan(x) # m.num \/ (train /\ Batch(x) * Height(x) * Width(x) = 1)
    THEN Fail(at)
    ELSE Ok(Tensor(x.shape, Term("bn", m.id, <<train>>, <<x.val>>)))

Activation(name, x) == Tensor(x.shape, Term(name, 0, <<>>, <<x.val>>))

MaxPool2d(x, ks, s, p) ==
    Ok(Tensor(<<Batch(x), Chan(x), ConvOut(Height(x), ks, s, p),
                ConvOut(Width(x), ks, s, p)>>,
              Term("maxpool", 0, <<>>, <<x.val>>)))

\* UpsamplingBilinear2d(size) / interpolate(size, bilinear, align_corners):
\* no parameters, the output size is `size` whatever the input size.
Bilinear(x, size) ==
    Tensor(<<Batch(x), Chan(x), size[1], size[2]>>,
           Term("bilinear", 0, size, <<x.val>>))

\* A torchvision ResNet stage of BasicBlocks: 3x3 convolutions, padding 1, the
\* first of stride `s` (with a 1x1 stride-s shortcut of the same output size).
ResLayer(at, m, x, s, train) ==
    IF Chan(x) # m.in
    THEN Fail(at)
    ELSE Ok(Tensor(<<Batch(x), m.out, ConvOut(Height(x), 3, s, 1),
                     ConvOut(Width(x), 3, s, 1)>>,
                   Term(at, m.id, <<train>>, <<x.val>>)))

\* torch.cat(..., dim=1)
Cat(at, a, b) ==
    IF <<Batch(a), Height(a), Width(a)>> # <<Batch(b), Height(b), Width(b)>>
    THEN Fail(at)
    ELSE Ok(Tensor(<<Batch(a), Chan(a) + Chan(b), Height(a), Width(a)>>,
                   Term("cat", 0, <<>>, <<a.val, b.val>>)))

\* Element-wise mul / add with broadcasting.
Broadcastable(a, b) ==
    \A i \in 1..4 : a.shape[i] = b.shape[i] \/ a.shape[i] = 1 \/ b.shape[i] = 1

Max(a, b) == IF a >= b THEN a ELSE b

Eltwise(at, a, b) ==
    IF ~Broadcastable(a, b)
    THEN Fail(at)
    ELSE Ok(Tensor([i \in 1..4 |-> Max(a.shape[i], b.shape[i])],
                   Term(at, 0, <<>>, <<a.val, b.val>>)))

\* nn.ReLU(inplace=True): the tensor at heap index i is overwritten and the
\* same tensor is returned.
ReLU(h, i) == [heap |-> [h EXCEPT ![i] = Activation("relu", h[i])], ref |-> i]

---------------------------------------------------------------------------
(* Construction.  Every parameter-bearing module gets an identity `id`. *)

Layer(id, in, o) == [id |-> id, in |-> in, out |-> o]
Norm(id, num) == [id |-> id, num |-> num]

MeanFieldUpdate(id, bottom_send, bottom_receive, feat_num) ==
    [id |-> id,
     atten_f |-> Layer(id, bottom_send + bottom_receive, feat_num),
     message_f |-> Layer(id, bottom_send, feat_num),
     Scale |-> Layer(id, feat_num, bottom_receive)]

UnitId(base, r, p) == base + 9 + Positions * (r - 1) + p

\* front.__init__: the layers of torchvision's resnet34 as they come, two
\* transposed convolutions, three resamplers and Rounds x Positions units.
Front(base, in_channels, feat_num, feat_width, feat_height) ==
    [id |-> base + 1,
     channel |-> in_channels,
     conv1 |-> Layer(base + 2, 3, 64),
     bn1 |-> Norm(base + 3, 64),
     layer1 |-> Layer(base + 4, 64, 64),
     layer2 |-> Layer(base + 5, 64, 128),
     layer3 |-> Layer(base + 6, 128, 256),
     layer4 |-> Layer(base + 7, 256, 512),
     res4f_dec_1 |-> Layer(base + 8, 256, feat_num),
     res5c_dec_1 |-> Layer(base + 9, 512, feat_num),
     res4f_dec |-> <<feat_height, feat_width>>,
     res3d_dec |-> <<feat_height, feat_width>>,
     res5c_dec |-> <<feat_height, feat_width>>,
     meanFieldUpdate |->
        [rp \in (1..Rounds) \X (1..Positions) |->
            MeanFieldUpdate(UnitId(base, rp[1], rp[2]), feat_num, feat_num, feat_num)]]

\* back.__init__
Back(base, feat_num) ==
    [id |-> base + 1,
     pred_1 |-> Layer(base + 2, feat_num, feat_num \div 2),
     bn1 |-> Norm(base + 3, feat_num \div 2),
     pred_2 |-> Layer(base + 4, feat_num \div 2, feat_num \div 4),
     bn2 |-> Norm(base + 5, feat_num \div 4),
     pred_3 |-> Layer(base + 6, feat_num \div 4, feat_num \div 8),
     bn3 |-> Norm(base + 7, feat_num \div 8),
     pred_4 |-> Layer(base + 8, feat_num \div 8, 1)]

NoNet == [constructed |-> FALSE]

\* SAStereonet.__init__
SAStereonet(in_channels, feat_num, feat_width, feat_height) ==
    [constructed |-> TRUE,
     feature_extractor |-> Front(0, in_channels, feat_num, feat_width, feat_height),
     deconv |-> Back(50, 2 * feat_num)]

---------------------------------------------------------------------------
(* MeanFieldUpdate.forward on shapes.  The value is recorded as one term  *)
(* over the unit's identity, the sender and the receiver.                 *)

MeanFieldUpdateForward(u, x_s, x_S) ==
    LET r == Bind(Cat("cat", x_s, x_S), LAMBDA c :
             Bind(Conv2d("atten_f", u.atten_f, c, 3, 1, 1), LAMBDA a :
             Bind(Conv2d("message_f", u.message_f, x_s, 3, 1, 1), LAMBDA y_s :
             Bind(Eltwise("mul", y_s, Activation("sigmoid", a)), LAMBDA y :
             Bind(Conv2d("Scale", u.Scale, y, 1, 1, 0), LAMBDA d :
             Eltwise("add", x_S, d))))))
    IN  IF r.ok
        THEN Ok(Tensor(r.t.shape, Term("MeanFieldUpdate", u.id, <<>>, <<x_s.val, x_S.val>>)))
        ELSE r

---------------------------------------------------------------------------
(* The inputs the model is run on *)

InChannelsSet == {1, DefaultInChannels}
FeatNums == {128, 130, DefaultFeatNum}
FeatSizes == {<<DefaultFeatHeight, DefaultFeatWidth>>, <<12, 40>>}
ImageSizes == {<<368, 1232>>, <<256, 1024>>}
Batches == 1..MaxBatch

Configs ==
    [in_channels : InChannelsSet, feat_num : FeatNums,
     feat_width : {s[2] : s \in FeatSizes}, feat_height : {s[1] : s \in FeatSizes}]

NoLoc == [x |-> 0, res3d |-> 0, res4f |-> 0, res5c |-> 0,
          res4f_1 |-> 0, res5c_1 |-> 0, y_S |-> 0]

NoMf == [pc |-> "idle"]

\* The state before SAStereonet(...) is called: the arguments are chosen, and so
\* are the two images of the forward call that follows, of the configured
\* in_channels, the right one equal to the left one or not.
Init ==
    /\ cfg \in {c \in Configs : <<c.feat_height, c.feat_width>> \in FeatSizes}
    /\ training \in BOOLEAN
    /\ net = NoNet
    /\ \E b \in Batches, sz \in ImageSizes, rname \in {"imgA", "imgB"} :
          heap = <<Image("imgA", <<b, cfg.in_channels, sz[1], sz[2]>>),
                   Image(rname, <<b, cfg.in_channels, sz[1], sz[2]>>)>>
    /\ leftimg = 1
    /\ rightimg = 2
    /\ pc = "new"
    /\ fpc = "idle"
    /\ loc = NoLoc
    /\ k = 1
    /\ calls = [right |-> <<>>, left |-> <<>>]
    /\ feat = [right |-> 0, left |-> 0, final |-> 0]
    /\ bpc = "idle"
    /\ pred = NoTensor
    /\ out = NoTensor
    /\ err = ""
    /\ mf = NoMf

---------------------------------------------------------------------------
(* SAStereonet *)

\* SAStereonet.__init__ : no argument is validated.
Construct ==
    /\ pc = "new"
    /\ net' = SAStereonet(cfg.in_channels, cfg.feat_num, cfg.feat_width, cfg.feat_height)
    /\ pc' = "feat_right"
    /\ UNCHANGED <<cfg, training, heap, leftimg, rightimg, fpc, loc, k, calls,
                   feat, bpc, pred, out, err, mf>>

InFront == pc \in {"feat_right", "feat_left"}

Stream == IF pc = "feat_right" THEN "right" ELSE "left"

\* A model that runs the left stream on a copy of the extractor.
ExtractorPerStream(n, s) ==
    IF s = "left"
    THEN Front(100, n.feature_extractor.channel, n.feature_extractor.res5c_dec_1.out,
               n.feature_extractor.res5c_dec[2], n.feature_extractor.res5c_dec[1])
    ELSE n.feature_extractor

\* self.feature_extractor, for either stream
Extractor(n, s) == n.feature_extractor

Self == Extractor(net, Stream)

\* feat_right = self.feature_extractor(rightimg); feat_left = ...(leftimg)
CallExtractor ==
    /\ InFront
    /\ fpc = "idle"
    /\ loc' = [NoLoc EXCEPT !.x = IF pc = "feat_right" THEN rightimg ELSE leftimg]
    /\ k' = 1
    /\ fpc' = "stem"
    /\ UNCHANGED <<cfg, training, net, heap, leftimg, rightimg, pc, calls,
                   feat, bpc, pred, out, err, mf>>

---------------------------------------------------------------------------
(* front.forward *)

\* conv1, bn1, relu, maxpool
Stem ==
    /\ InFront
    /\ fpc = "stem"
    /\ LET r == Bind(Conv2d("conv1", Self.conv1, heap[loc.x], 7, 2, 3), LAMBDA a :
                 Bind(BatchNorm2d("bn1", Self.bn1, a, training), LAMBDA b :
                 MaxPool2d(Activation("relu", b), 3, 2, 1)))
       IN  IF r.ok
           THEN /\ heap' = Append(heap, r.t)
                /\ loc' = [loc EXCEPT !.x = Len(heap) + 1]
                /\ fpc' = "backbone"
                /\ UNCHANGED <<pc, err>>
           ELSE /\ pc' = "error"
                /\ err' = r.at
                /\ UNCHANGED <<heap, loc, fpc>>
    /\ UNCHANGED <<cfg, training, net, leftimg, rightimg, k, calls,
                   feat, bpc, pred, out, mf>>

\* layer1; layer2 -> res3d; layer3 -> res4f; layer4 -> res5c
Backbone ==
    /\ InFront
    /\ fpc = "backbone"
    /\ LET r1 == ResLayer("layer1", Self.layer1, heap[loc.x], 1, training)
           r2 == Bind(r1, LAMBDA t : ResLayer("layer2", Self.layer2, t, 2, training))
           r3 == Bind(r2, LAMBDA t : ResLayer("layer3", Self.layer3, t, 2, training))
           r4 == Bind(r3, LAMBDA t : ResLayer("layer4", Self.layer4, t, 2, training))
           n == Len(heap)
       IN  IF r4.ok
           THEN /\ heap' = heap \o <<r1.t, r2.t, r3.t, r4.t>>
                /\ loc' = [loc EXCEPT !.x = n + 4, !.res3d = n + 2,
                                      !.res4f = n + 3, !.res5c = n + 4]
                /\ fpc' = "project"
                /\ UNCHANGED <<pc, err>>
           ELSE /\ pc' = "error"
                /\ err' = r4.at
                /\ UNCHANGED <<heap, loc, fpc>>
    /\ UNCHANGED <<cfg, training, net, leftimg, rightimg, k, calls,
                   feat, bpc, pred, out, mf>>

\* The bindings left by
\*     res4f_1 = relu(res4f_dec_1(res4f)); res5c_1 = res5c_dec_1(res5c)
\*     res4f_1 = relu(res5c_1)
\* mid: what the first relu returned, deepRaw: what res5c_dec_1 returned,
\* deepAct: what the second relu returned.
ProjectBindOwnBranch(l, mid, deepRaw, deepAct) ==
    [l EXCEPT !.res4f_1 = mid, !.res5c_1 = deepAct]

ProjectBind(l, mid, deepRaw, deepAct) ==
    [l EXCEPT !.res4f_1 = deepAct, !.res5c_1 = deepRaw]

Project ==
    /\ InFront
    /\ fpc = "project"
    /\ LET a == ConvTranspose2d("res4f_dec_1", Self.res4f_dec_1, heap[loc.res4f], 4, 2, 1)
           b == ConvTranspose2d("res5c_dec_1", Self.res5c_dec_1, heap[loc.res5c], 8, 4, 2)
           n == Len(heap)
           m1 == ReLU(Append(heap, a.t), n + 1)
           m2 == ReLU(Append(m1.heap, b.t), n + 2)
       IN  IF a.ok /\ b.ok
           THEN /\ heap' = m2.heap
                /\ loc' = ProjectBind(loc, m1.ref, n + 2, m2.ref)
                /\ fpc' = "resample"
                /\ UNCHANGED <<pc, err>>
           ELSE /\ pc' = "error"
                /\ err' = IF a.ok THEN b.at ELSE a.at
                /\ UNCHANGED <<heap, loc, fpc>>
    /\ UNCHANGED <<cfg, training, net, leftimg, rightimg, k, calls,
                   feat, bpc, pred, out, mf>>

\* res4f = res4f_dec(res4f_1); res3d = res3d_dec(res3d); res5c = res5c_dec(res5c_1)
Resample ==
    /\ InFront
    /\ fpc = "resample"
    /\ LET n == Len(heap)
       IN  /\ heap' = heap \o <<Bilinear(heap[loc.res4f_1], Self.res4f_dec),
                                 Bilinear(heap[loc.res3d], Self.res3d_dec),
                                 Bilinear(heap[loc.res5c_1], Self.res5c_dec)>>
           /\ loc' = [loc EXCEPT !.res4f = n + 1, !.res3d = n + 2, !.res5c = n + 3]
    /\ fpc' = "meanfield"
    /\ UNCHANGED <<cfg, training, net, leftimg, rightimg, pc, k, calls,
                   feat, bpc, pred, out, err, mf>>

\* The k-th call is self.meanFieldUpdate<r>_<p>(sender, receiver).
RoundOf(i) == ((i - 1) \div Positions) + 1
PositionOf(i) == ((i - 1) % Positions) + 1

\* A scheduler that shares the first round's units across the rounds.
UnitAtShared(fe, i) == fe.meanFieldUpdate[<<1, PositionOf(i)>>]

UnitAt(fe, i) == fe.meanFieldUpdate[<<RoundOf(i), PositionOf(i)>>]

SenderAt(l, i) ==
    CASE PositionOf(i) = 1 -> l.res3d
      [] PositionOf(i) = 2 -> l.res4f
      [] OTHER -> l.res5c

\* A scheduler that starts every round from the deep map again.
ReceiverAtPerRound(l, i) == IF PositionOf(i) = 1 THEN l.res5c ELSE l.y_S

ReceiverAt(l, i) == IF i = 1 THEN l.res5c ELSE l.y_S

MeanField ==
    /\ InFront
    /\ fpc = "meanfield"
    /\ k <= Steps
    /\ LET u == UnitAt(Self, k)
           s == SenderAt(loc, k)
           rcv == ReceiverAt(loc, k)
           r == MeanFieldUpdateForward(u, heap[s], heap[rcv])
       IN  IF r.ok
           THEN /\ heap' = Append(heap, r.t)
                /\ loc' = [loc EXCEPT !.y_S = Len(heap) + 1]
                /\ calls' = [calls EXCEPT ![Stream] =
                                Append(@, [unit |-> u.id, sender |-> s,
                                           receiver |-> rcv, result |-> Len(heap) + 1])]
                /\ k' = k + 1
                /\ fpc' = IF k = Steps THEN "return" ELSE "meanfield"
                /\ UNCHANGED <<pc, err>>
           ELSE /\ pc' = "error"
                /\ err' = r.at
                /\ UNCHANGED <<heap, loc, calls, k, fpc>>
    /\ UNCHANGED <<cfg, training, net, leftimg, rightimg, feat, bpc, pred, out, mf>>

\* return y_S
Return ==
    /\ InFront
    /\ fpc = "return"
    /\ feat' = [feat EXCEPT ![Stream] = loc.y_S]
    /\ fpc' = "idle"
    /\ pc' = IF pc = "feat_right" THEN "feat_left" ELSE "cat"
    /\ UNCHANGED <<cfg, training, net, heap, leftimg, rightimg, loc, k, calls,
                   bpc, pred, out, err, mf>>

---------------------------------------------------------------------------
(* SAStereonet.forward, after the two streams *)

\* final_feat = torch.cat((feat_left, feat_right), 1)
Concat ==
    /\ pc = "cat"
    /\ LET r == Cat("cat", heap[feat.left], heap[feat.right])
       IN  IF r.ok
           THEN /\ heap' = Append(heap, r.t)
                /\ feat' = [feat EXCEPT !.final = Len(heap) + 1]
                /\ pc' = "deconv"
                /\ UNCHANGED err
           ELSE /\ pc' = "error"
                /\ err' = r.at
                /\ UNCHANGED <<heap, feat>>
    /\ UNCHANGED <<cfg, training, net, leftimg, rightimg, fpc, loc, k, calls,
                   bpc, pred, out, mf>>

\* pred = self.deconv(final_feat)
CallDeconv ==
    /\ pc = "deconv"
    /\ bpc = "idle"
    /\ pred' = heap[feat.final]
    /\ bpc' = "pred_1"
    /\ UNCHANGED <<cfg, training, net, heap, leftimg, rightimg, pc, fpc, loc, k,
                   calls, feat, out, err, mf>>

---------------------------------------------------------------------------
(* back.forward *)

\* One statement group of back.forward: pred becomes r.t, or r.at raises.
BackStep(r, next) ==
    /\ IF r.ok
       THEN /\ pred' = r.t
            /\ bpc' = next
            /\ UNCHANGED <<pc, err>>
       ELSE /\ pc' = "error"
            /\ err' = r.at
            /\ UNCHANGED <<pred, bpc>>
    /\ UNCHANGED <<cfg, training, net, heap, leftimg, rightimg, fpc, loc, k,
                   calls, feat, out, mf>>

\* pred_1, bn1, SELU
Pred1 ==
    /\ pc = "deconv"
    /\ bpc = "pred_1"
    /\ BackStep(Bind(ConvTranspose2d("pred_1", net.deconv.pred_1, pred, 4, 2, 1), LAMBDA a :
                Bind(BatchNorm2d("deconv.bn1", net.deconv.bn1, a, training), LAMBDA b :
                Ok(Activation("selu", b)))), "pred_2")

\* pred_2, bn2, SELU
Pred2 ==
    /\ pc = "deconv"
    /\ bpc = "pred_2"
    /\ BackStep(Bind(ConvTranspose2d("pred_2", net.deconv.pred_2, pred, 4, 2, 1), LAMBDA a :
                Bind(BatchNorm2d("deconv.bn2", net.deconv.bn2, a, training), LAMBDA b :
                Ok(Activation("selu", b)))), "pred_3")

\* pred_3, bn3, SELU
Pred3 ==
    /\ pc = "deconv"
    /\ bpc = "pred_3"
    /\ BackStep(Bind(Conv2d("pred_3", net.deconv.pred_3, pred, 3, 1, 1), LAMBDA a :
                Bind(BatchNorm2d("deconv.bn3", net.deconv.bn3, a, training), LAMBDA b :
                Ok(Activation("selu", b)))), "pred_4")

\* pred_4
Pred4 ==
    /\ pc = "deconv"
    /\ bpc = "pred_4"
    /\ BackStep(Conv2d("pred_4", net.deconv.pred_4, pred, 3, 1, 1), "interpolate")

\* A decoder that resamples to the inference size in both modes.
OutputSizeAnyMode(train) == <<368, 1232>>

\* The size the decoder resamples to.
OutputSize(train) == IF train THEN <<256, 1024>> ELSE <<368, 1232>>

\* if self.training: interpolate(pred, size=(256, 1024)) else: (368, 1232)
Interpolate ==
    /\ pc = "deconv"
    /\ bpc = "interpolate"
    /\ BackStep(Ok(Bilinear(pred, OutputSize(training))), "return")

\* return pred (from back.forward, and then from SAStereonet.forward)
BackReturn ==
    /\ pc = "deconv"
    /\ bpc = "return"
    /\ out' = pred
    /\ bpc' = "idle"
    /\ pc' = "done"
    /\ UNCHANGED <<cfg, training, net, heap, leftimg, rightimg, fpc, loc, k,
                   calls, feat, pred, err, mf>>

---------------------------------------------------------------------------
(* The whole model: construction, then one forward call *)

Next ==
    \/ Construct
    \/ CallExtractor
    \/ Stem
    \/ Backbone
    \/ Project
    \/ Resample
    \/ MeanField
    \/ Return
    \/ Concat
    \/ CallDeconv
    \/ Pred1
    \/ Pred2
    \/ Pred3
    \/ Pred4
    \/ Interpolate
    \/ BackReturn

Spec == Init /\ [][Next]_vars

---------------------------------------------------------------------------
(* The decoder alone: back(feat_num) called on an input of feat_num       *)
(* channels, of any batch and spatial size, in either mode                *)

BackWidths == {2 * f : f \in FeatNums \cup {4, 9}}
BackSides == (1..MaxSide) \cup {DefaultFeatHeight, DefaultFeatWidth}

InitBack ==
    /\ \E w \in BackWidths :
          /\ cfg = [in_channels |-> DefaultInChannels, feat_num |-> w \div 2,
                    feat_width |-> DefaultFeatWidth, feat_height |-> DefaultFeatHeight]
          /\ net = [constructed |-> TRUE, deconv |-> Back(50, w)]
          /\ \E b \in Batches, h \in BackSides, wd \in BackSides :
                pred = Image("x", <<b, w, h, wd>>)
    /\ training \in BOOLEAN
    /\ heap = <<>>
    /\ leftimg = 0
    /\ rightimg = 0
    /\ pc = "deconv"
    /\ fpc = "idle"
    /\ loc = NoLoc
    /\ k = 1
    /\ calls = [right |-> <<>>, left |-> <<>>]
    /\ feat = [right |-> 0, left |-> 0, final |-> 0]
    /\ bpc = "pred_1"
    /\ out = NoTensor
    /\ err = ""
    /\ mf = NoMf

NextBack ==
    \/ Pred1
    \/ Pred2
    \/ Pred3
    \/ Pred4
    \/ Interpolate
    \/ BackReturn

SpecBack == InitBack /\ [][NextBack]_vars

---------------------------------------------------------------------------
(* MeanFieldUpdate.forward on numbers.  Tensors of one channel and one    *)
(* pixel: the padded convolutions reduce to weight * x + bias.  Floating  *)
(* point makes the sigmoid exactly 0 for a very negative logit and        *)
(* exactly 1 for a very positive one; here it is the ramp between those   *)
(* two, in units of 1 / GateOne, and every value that follows the gate is *)
(* kept in those units.                                                   *)

GateOne == 2 * SatLogit

Sigmoid(l) ==
    IF l <= -SatLogit THEN 0
    ELSE IF l >= SatLogit THEN GateOne
    ELSE l + SatLogit

Affine(m, x) == m.weight * x + m.bias

\* A unit that adds the message without gating it.
MeanFieldUpdateValueUngated(p, x_s, x_S) ==
    LET a_s == Sigmoid(p.atten_f.weight_s * x_s + p.atten_f.weight_S * x_S + p.atten_f.bias)
        y_s == Affine(p.message_f, x_s)
        scaled == p.Scale.weight * (y_s * GateOne) + GateOne * p.Scale.bias
    IN  [a_s |-> a_s, y_S |-> GateOne * x_S + scaled]

\* [a_s, y_S] of forward(x_s, x_S), both in units of 1 / GateOne
MeanFieldUpdateValue(p, x_s, x_S) ==
    LET a_s == Sigmoid(p.atten_f.weight_s * x_s + p.atten_f.weight_S * x_S + p.atten_f.bias)
        y_s == Affine(p.message_f, x_s)
        gated == y_s * a_s
        scaled == p.Scale.weight * gated + GateOne * p.Scale.bias
    IN  [a_s |-> a_s, y_S |-> GateOne * x_S + scaled]

Values == -MaxVal..MaxVal
Weights == -MaxW..MaxW

UnitParams ==
    [atten_f : [weight_s : Weights, weight_S : Weights, bias : Weights],
     message_f : [weight : Weights, bias : Weights],
     Scale : [weight : Weights, bias : Weights]]

InitUnit ==
    /\ mf \in [pc : {"call"}, p : UnitParams, x_s : Values, x_S : Values,
                a_s : {0}, y_S : {0}]
    /\ cfg = [in_channels |-> DefaultInChannels, feat_num |-> 1,
              feat_width |-> 1, feat_height |-> 1]
    /\ training = FALSE
    /\ net = NoNet
    /\ heap = <<>>
    /\ leftimg = 0
    /\ rightimg = 0
    /\ pc = "unit"
    /\ fpc = "idle"
    /\ loc = NoLoc
    /\ k = 1
    /\ calls = [right |-> <<>>, left |-> <<>>]
    /\ feat = [right |-> 0, left |-> 0, final |-> 0]
    /\ bpc = "idle"
    /\ pred = NoTensor
    /\ out = NoTensor
    /\ err = ""

\* y_S = unit(x_s, x_S)
CallUnit ==
    /\ mf.pc = "call"
    /\ LET r == MeanFieldUpdateValue(mf.p, mf.x_s, mf.x_S)
       IN  mf' = [mf EXCEPT !.pc = "done", !.a_s = r.a_s, !.y_S = r.y_S]
    /\ UNCHANGED <<cfg, training, net, heap, leftimg, rightimg, pc, fpc, loc, k,
                   calls, feat, bpc, pred, out, err>>

NextUnit == CallUnit

SpecUnit == InitUnit /\ [][NextUnit]_vars

---------------------------------------------------------------------------
(* Properties *)

Streams == {"right", "left"}

\* The identities of the parameter-bearing modules a value was computed with.
RECURSIVE Mods(_)
Mods(t) ==
    (IF t.mod = 0 THEN {} ELSE {t.mod})
        \cup UNION {Mods(t.args[i]) : i \in 1..Len(t.args)}

\* The sub-terms of a term, itself included.
RECURSIVE SubTerms(_)
SubTerms(t) == {t} \cup UNION {SubTerms(t.args[i]) : i \in 1..Len(t.args)}

Aligned == InFront /\ fpc \in {"meanfield", "return"}

DefaultCfg ==
    [in_channels |-> DefaultInChannels, feat_num |-> DefaultFeatNum,
     feat_width |-> DefaultFeatWidth, feat_height |-> DefaultFeatHeight]

\* C1: with in_channels=3, feat_num=512, feat_height=24, feat_width=80, the
\* forward pass in eval mode on a pair of shape (2, 3, 368, 1232) raises no
\* shape error and returns a tensor of shape (2, 1, 368, 1232).
C1_EndToEndShape ==
    (/\ cfg = DefaultCfg
     /\ ~training
     /\ heap[leftimg].shape = <<2, 3, 368, 1232>>
     /\ heap[rightimg].shape = <<2, 3, 368, 1232>>)
    => /\ pc # "error"
       /\ pc = "done" => out.shape = <<2, 1, 368, 1232>>

\* C2: the three maps front.forward hands to the refinement units all have
\* the shape (feat_num, feat_height, feat_width); in particular the shallow
\* map has feat_num channels.
C2_CommonShape ==
    Aligned =>
        \A i \in {loc.res3d, loc.res4f, loc.res5c} :
            <<Chan(heap[i]), Height(heap[i]), Width(heap[i])>>
                = <<cfg.feat_num, cfg.feat_height, cfg.feat_width>>

\* C3: the calls of one stream form the chain accumulator_k =
\* unit_k(sender_k, accumulator_{k-1}): the senders are shallow, mid, deep in
\* turn, the first receiver is the deep map, every later receiver is the
\* tensor the call before it returned, and front.forward returns the
\* fifteenth result.
C3_Chain ==
    /\ Aligned =>
        LET c == calls[Stream]
        IN  /\ Len(c) = k - 1
            /\ \A i \in 1..Len(c) :
                  /\ c[i].sender = <<loc.res3d, loc.res4f, loc.res5c>>[((i - 1) % 3) + 1]
                  /\ c[i].receiver = IF i = 1 THEN loc.res5c ELSE c[i - 1].result
                  /\ heap[c[i].result].val.args
                        = <<heap[c[i].sender].val, heap[c[i].receiver].val>>
            /\ fpc = "return" => Len(c) = 15 /\ loc.y_S = c[15].result
    /\ \A s \in Streams :
          feat[s] # 0 => Len(calls[s]) = 15 /\ feat[s] = calls[s][15].result

C3_Witness ==
    /\ pc = "feat_left"
    /\ fpc = "return"
    /\ Len(calls["left"]) = 15
    /\ feat["right"] # 0

C5_OutputSize ==
    /\ pc # "error"
    /\ (bpc = "return" \/ pc = "done") =>
        LET r == IF pc = "done" THEN out ELSE pred
        IN  /\ Chan(r) = 1
            /\ training => <<Height(r), Width(r)>> = <<256, 1024>>
            /\ ~training => <<Height(r), Width(r)>> = <<368, 1232>>

C5_Witness ==
    /\ pc = "done"
    /\ training
    /\ net.deconv.pred_1.in = 2 * DefaultFeatNum
    /\ out.shape = <<2, 1, 256, 1024>>

\* C6: a feat_num not divisible by 8 is rejected when SAStereonet is
\* constructed; no model with a floor-divided channel count exists.
C6_EagerValidation ==
    net.constructed =>
        /\ cfg.feat_num % 8 = 0
        /\ 8 * net.deconv.pred_3.out = net.deconv.pred_1.in

\* C7: the left and the right stream run on the same module instances (the
\* same units call by call, the same backbone and projector layers), so
\* equal images give equal feature maps.
C7_SharedInstances ==
    /\ \A i \in 1..Len(calls["left"]) :
          /\ i <= Len(calls["right"])
          /\ calls["left"][i].unit = calls["right"][i].unit
    /\ (feat["left"] # 0 /\ feat["right"] # 0) =>
          /\ Mods(heap[feat["left"]].val) = Mods(heap[feat["right"]].val)
          /\ heap[leftimg].val = heap[rightimg].val
                => heap[feat["left"]].val = heap[feat["right"]].val

C7_Witness ==
    /\ feat["left"] # 0
    /\ feat["right"] # 0
    /\ heap[leftimg].val = heap[rightimg].val
    /\ Cardinality(Mods(heap[feat["left"]].val)) > 15

\* C8: the first backbone convolution takes the configured in_channels, and
\* an input of in_channels channels does not fail on it.
C8_InChannels ==
    /\ net.constructed => net.feature_extractor.conv1.in = cfg.in_channels
    /\ err # "conv1"

\* C9: the mid branch's activated projection is computed and dropped: the
\* variable is rebound to the deep branch's, the mid and deep maps given to
\* the units are equal in value, and what front.forward computes uses
\* neither the mid transposed convolution nor the backbone's mid activation
\* other than as the input of the deep stage.
C9_MidIsDeep ==
    /\ Aligned =>
          /\ loc.res4f_1 = loc.res5c_1
          /\ heap[loc.res4f].val = heap[loc.res5c].val
          /\ heap[loc.res5c].val.args[1].args[1].mod = Self.res5c_dec_1.id
          /\ \E i \in 1..Len(heap) :
                /\ heap[i].val.op = "relu"
                /\ heap[i].val.args[1].mod = Self.res4f_dec_1.id
          /\ \A i \in {loc.res3d, loc.res4f, loc.res5c} \cup (IF loc.y_S = 0 THEN {} ELSE {loc.y_S}) :
                /\ Self.res4f_dec_1.id \notin Mods(heap[i].val)
                /\ \A t \in SubTerms(heap[i].val) :
                      (\E j \in 1..Len(t.args) : t.args[j].op = "layer3")
                          => t.op = "layer4"
    /\ \A s \in Streams :
          feat[s] # 0 => net.feature_extractor.res4f_dec_1.id \notin Mods(heap[feat[s]].val)

C9_Witness ==
    /\ pc = "feat_left"
    /\ fpc = "return"
    /\ loc.res4f # loc.res5c
    /\ heap[loc.res4f].val = heap[loc.res5c].val

\* C10: one stream's fifteen calls use fifteen pairwise distinct units, the
\* call of round r and position p the unit constructed for (r, p), and a
\* finished stream has used every constructed unit.
C10_DistinctUnits ==
    \A s \in Streams :
        LET c == calls[s]
            fe == net.feature_extractor
        IN  /\ \A i, j \in 1..Len(c) : c[i].unit = c[j].unit => i = j
            /\ \A r \in 1..5, p \in 1..3 :
                  3 * (r - 1) + p <= Len(c)
                      => c[3 * (r - 1) + p].unit = fe.meanFieldUpdate[<<r, p>>].id
            /\ feat[s] # 0 =>
                  /\ {c[i].unit : i \in 1..Len(c)}
                        = {fe.meanFieldUpdate[rp].id : rp \in DOMAIN fe.meanFieldUpdate}
                  /\ Cardinality({c[i].unit : i \in 1..Len(c)}) = 15

C10_Witness ==
    /\ feat["left"] # 0
    /\ feat["right"] # 0
    /\ Len(calls["left"]) = 15
    /\ Len(calls["right"]) = 15

====
